---- MODULE Spec2Model ----
(***************************************************************************)
(* A model of the filter engine of wasmbooth (src/src/filter.rs).          *)
(*                                                                         *)
(* An image is a record [width, height, pixels]; pixels is the flat,       *)
(* row-major buffer.  The source indexes the buffer from 0, a TLA+         *)
(* sequence from 1: buffer index i is pixels[i + 1].                       *)
(*                                                                         *)
(* Every filter is modelled as the loop the source runs, one operator per  *)
(* loop body, over a run state                                             *)
(*   [width, height, pixels, ok, touched, copies, written, terms]          *)
(* whose last five fields are the record of what the call did:             *)
(*   ok       FALSE once the call has panicked (a slice index out of       *)
(*            range, an unsigned subtraction below zero);                  *)
(*   touched  every buffer index the call read or wrote (attempted);       *)
(*   copies   the mirror filters' <<source, target>> copies, in order;     *)
(*   written  the indices that received a computed value (convolution,     *)
(*            gradient magnitude);                                         *)
(*   terms    SobelFilter's reads: <<i, calc_index, kernel row, kernel     *)
(*            col>> for every product summed for pixel i.                  *)
(*                                                                         *)
(* Pixel, Image and the convolution evaluator live in modules the filter   *)
(* file only imports; they are modelled from their documented contracts    *)
(* and from what the filter tests show of them.                            *)
(*                                                                         *)
(* Spec calls any filter on a fresh buffer; MirrorSpec calls the mirror    *)
(* filters several times in a row.                                         *)
(***************************************************************************)
EXTENDS Integers, Sequences, FiniteSets, TLC

VARIABLES image, pre, op, prevOp, run, calls

vars == <<image, pre, op, prevOp, run, calls>>

\* ------------------------------------------------------------------ bounds

\* Largest width and height of a generated image.
MaxDim == 7
\* Number of filter calls in one behaviour of Spec.
MaxCalls == 1
\* Number of consecutive mirror calls in one behaviour of MirrorSpec.
MaxMirrorCalls == 2

\* ------------------------------------------------- collaborators (Pixel)

rgb(r, g, b) == [red |-> r, green |-> g, blue |-> b]

\* Pixel::grayscale: all three channels become the mean of the channels
\* (test_filter_grayscale: (100,150,200) -> (150,150,150)).
pixel_grayscale(p) ==
    LET v == (p.red + p.green + p.blue) \div 3 IN rgb(v, v, v)

\* Pixel::invert: c -> 255 - c.
pixel_invert(p) == rgb(255 - p.red, 255 - p.green, 255 - p.blue)

\* Pixel::set_gray(v).
set_gray(p, v) == rgb(v, v, v)

\* ------------------------------------------------- collaborators (Image)

index_to_row_col(img, i) == <<i \div img.width, i % img.width>>

row_col_to_index(img, row, col) == row * img.width + col

\* Slice indexing is bounds-checked: pixels[j] panics unless 0 <= j < len.
InBounds(px, j) == j >= 0 /\ j < Len(px)

At(px, j) == px[j + 1]

Put(px, j, p) == [px EXCEPT ![j + 1] = p]

\* The 3x3 neighbourhood of one channel around interior index i, as a
\* 3x3 matrix (rows top to bottom).
Neighbourhood(img, i, ch) ==
    LET rc == index_to_row_col(img, i)
        N(a, b) == At(img.pixels, row_col_to_index(img, rc[1] + a, rc[2] + b))[ch]
    IN  << <<N(-1, -1), N(-1, 0), N(-1, 1)>>,
           <<N( 0, -1), N( 0, 0), N( 0, 1)>>,
           <<N( 1, -1), N( 1, 0), N( 1, 1)>> >>

\* The nine indices the neighbourhood query reads.
NeighbourIndices(img, i) ==
    LET rc == index_to_row_col(img, i) IN
    {row_col_to_index(img, rc[1] + a, rc[2] + b) : a, b \in -1..1}

get_neighbour_colours(img, i) ==
    <<Neighbourhood(img, i, "red"),
      Neighbourhood(img, i, "green"),
      Neighbourhood(img, i, "blue")>>

\* ------------------------------------------- collaborators (convolution)

\* `x as u8` for a float x holding an integer value: Rust defines the
\* float-to-int cast to saturate at the bounds of the target type (compilers
\* before 1.45 left the out-of-range cast undefined).
as_u8(x) == IF x < 0 THEN 0 ELSE IF x > 255 THEN 255 ELSE x

\* apply_convolution: the weighted sum of the neighbourhood, narrowed to u8.
apply_convolution(n, matrix) ==
    as_u8(  n[1][1] * matrix[1][1] + n[1][2] * matrix[1][2] + n[1][3] * matrix[1][3]
          + n[2][1] * matrix[2][1] + n[2][2] * matrix[2][2] + n[2][3] * matrix[2][3]
          + n[3][1] * matrix[3][1] + n[3][2] * matrix[3][2] + n[3][3] * matrix[3][3])

\* ------------------------------------------------------------- run state

Start(img) ==
    [width |-> img.width, height |-> img.height, pixels |-> img.pixels,
     ok |-> TRUE, touched |-> {}, copies |-> <<>>, written |-> {}, terms |-> {}]

\* A panic: the call stops; `at` are the indices whose access was attempted.
Panic(st, at) == [st EXCEPT !.ok = FALSE, !.touched = @ \cup at]

Idle == [ok |-> TRUE, touched |-> {}, copies |-> <<>>, written |-> {}, terms |-> {}]

\* ---------------------------------------------------------------- mirrors

\* Mutant: the two halves are swapped instead of the left copied over the right.
mirror_x_body_swap(st, img, i) ==
    LET rc == index_to_row_col(img, i)
        j  == row_col_to_index(img, rc[1], img.width - 1 - rc[2])
    IN  IF rc[2] < img.width \div 2
        THEN [st EXCEPT !.pixels  = Put(Put(@, j, At(st.pixels, i)), i, At(st.pixels, j)),
                        !.touched = @ \cup {i, j},
                        !.copies  = Append(@, <<i, j>>)]
        ELSE st

\* Mutant: the copy runs from the mirrored column to the left one.
mirror_x_body_reversed(st, img, i) ==
    LET rc == index_to_row_col(img, i)
        j  == row_col_to_index(img, rc[1], img.width - 1 - rc[2])
    IN  IF rc[2] < img.width \div 2
        THEN [st EXCEPT !.pixels  = Put(@, i, At(st.pixels, j)),
                        !.touched = @ \cup {i, j},
                        !.copies  = Append(@, <<j, i>>)]
        ELSE st

\* One iteration of mirror_x's loop.
mirror_x_body(st, img, i) ==
    LET mid == img.width \div 2
        rc  == index_to_row_col(img, i)
        row == rc[1]
        col == rc[2]
    IN  IF col < mid
        THEN IF img.width < 1 \/ img.width - 1 < col
             THEN Panic(st, {i})
             ELSE LET j == row_col_to_index(img, row, img.width - 1 - col) IN
                  IF ~InBounds(st.pixels, j) \/ ~InBounds(st.pixels, i)
                  THEN Panic(st, {i, j})
                  ELSE [st EXCEPT !.pixels  = Put(@, j, At(st.pixels, i)),
                                  !.touched = @ \cup {i, j},
                                  !.copies  = Append(@, <<i, j>>)]
        ELSE st

RECURSIVE mirror_x_loop(_, _, _)
mirror_x_loop(st, img, i) ==
    IF i >= Len(img.pixels) \/ ~st.ok THEN st
    ELSE mirror_x_loop(mirror_x_body(st, img, i), img, i + 1)

mirror_x(img) == mirror_x_loop(Start(img), img, 0)

\* Mutant: the copy runs from the mirrored row to the upper one.
mirror_y_body_reversed(st, img, i) ==
    LET rc == index_to_row_col(img, i)
        j  == row_col_to_index(img, img.height - 1 - rc[1], rc[2])
    IN  IF rc[1] < img.height \div 2
        THEN [st EXCEPT !.pixels  = Put(@, i, At(st.pixels, j)),
                        !.touched = @ \cup {i, j},
                        !.copies  = Append(@, <<j, i>>)]
        ELSE st

\* Mutant: the test is row <= mid, so the middle row is a source too.
mirror_y_body_mid_inclusive(st, img, i) ==
    LET rc == index_to_row_col(img, i)
        j  == row_col_to_index(img, img.height - 1 - rc[1], rc[2])
    IN  IF rc[1] <= img.height \div 2 /\ InBounds(st.pixels, j)
        THEN [st EXCEPT !.pixels  = Put(@, j, At(st.pixels, i)),
                        !.touched = @ \cup {i, j},
                        !.copies  = Append(@, <<i, j>>)]
        ELSE st

\* One iteration of mirror_y's loop.
mirror_y_body(st, img, i) ==
    LET mid == img.height \div 2
        rc  == index_to_row_col(img, i)
        row == rc[1]
        col == rc[2]
    IN  IF row < mid
        THEN IF img.height < 1 \/ img.height - 1 < row
             THEN Panic(st, {i})
             ELSE LET j == row_col_to_index(img, img.height - 1 - row, col) IN
                  IF ~InBounds(st.pixels, j) \/ ~InBounds(st.pixels, i)
                  THEN Panic(st, {i, j})
                  ELSE [st EXCEPT !.pixels  = Put(@, j, At(st.pixels, i)),
                                  !.touched = @ \cup {i, j},
                                  !.copies  = Append(@, <<i, j>>)]
        ELSE st

RECURSIVE mirror_y_loop(_, _, _)
mirror_y_loop(st, img, i) ==
    IF i >= Len(img.pixels) \/ ~st.ok THEN st
    ELSE mirror_y_loop(mirror_y_body(st, img, i), img, i + 1)

mirror_y(img) == mirror_y_loop(Start(img), img, 0)

\* ------------------------------------------------------ grayscale, invert

RECURSIVE grayscale_loop(_, _)
grayscale_loop(st, i) ==
    IF i >= Len(st.pixels) THEN st
    ELSE grayscale_loop([st EXCEPT !.pixels  = Put(@, i, pixel_grayscale(At(st.pixels, i))),
                                   !.touched = @ \cup {i}], i + 1)

grayscale(img) == grayscale_loop(Start(img), 0)

RECURSIVE invert_loop(_, _)
invert_loop(st, i) ==
    IF i >= Len(st.pixels) THEN st
    ELSE invert_loop([st EXCEPT !.pixels  = Put(@, i, pixel_invert(At(st.pixels, i))),
                                !.touched = @ \cup {i}], i + 1)

invert(img) == invert_loop(Start(img), 0)

\* ------------------------------------------------------------ convolution

\* Mutant: the neighbourhood is read from the live buffer, not the snapshot.
convolution_body_in_place(st, original, matrix, i) ==
    LET rc   == index_to_row_col(original, i)
        live == [width |-> st.width, height |-> st.height, pixels |-> st.pixels]
    IN  IF rc[1] > 0 /\ rc[1] < st.height - 1 /\ rc[2] > 0 /\ rc[2] < st.width - 1
        THEN LET n == get_neighbour_colours(live, i) IN
             [st EXCEPT !.pixels  = Put(@, i, rgb(apply_convolution(n[1], matrix),
                                                  apply_convolution(n[2], matrix),
                                                  apply_convolution(n[3], matrix))),
                        !.touched = @ \cup NeighbourIndices(original, i),
                        !.written = @ \cup {i}]
        ELSE st

\* One iteration of convolution's loop; `original` is the snapshot taken
\* before the loop.
convolution_body(st, original, matrix, i) ==
    LET rc  == index_to_row_col(original, i)
        row == rc[1]
        col == rc[2]
    IN  IF st.height < 1 \/ st.width < 1
        THEN Panic(st, {})
        ELSE IF row > 0 /\ row < st.height - 1 /\ col > 0 /\ col < st.width - 1
        THEN LET n     == get_neighbour_colours(original, i)
                 red   == apply_convolution(n[1], matrix)
                 green == apply_convolution(n[2], matrix)
                 blue  == apply_convolution(n[3], matrix)
             IN  [st EXCEPT !.pixels  = Put(@, i, rgb(red, green, blue)),
                            !.touched = @ \cup NeighbourIndices(original, i),
                            !.written = @ \cup {i}]
        ELSE st

RECURSIVE convolution_loop(_, _, _, _)
convolution_loop(st, original, matrix, i) ==
    IF i >= Len(st.pixels) \/ ~st.ok THEN st
    ELSE convolution_loop(convolution_body(st, original, matrix, i), original, matrix, i + 1)

convolution(img, matrix) == convolution_loop(Start(img), img, matrix, 0)

\* --------------------------------------------------------- Sobel kernels

SOBEL_1_X == << <<-1, 0, 1>>,
               <<-2, 0, 2>>,
               <<-1, 0, 1>> >>

SOBEL_1_Y == << <<-1, -2, -1>>,
               << 0,  0,  0>>,
               << 1,  2,  1>> >>

SOBEL_2_X == << <<-1,  -2, 0,  2, 1>>,
               <<-4, -10, 0, 10, 4>>,
               <<-7, -17, 0, 17, 7>>,
               <<-4, -10, 0, 10, 4>>,
               <<-1,  -2, 0,  2, 1>> >>

SOBEL_2_Y == << <<-1,  -4,  -7,  -4, -1>>,
               <<-2, -10, -17, -10, -2>>,
               << 0,   0,   0,   0,  0>>,
               << 2,  10,  17,  10,  2>>,
               << 1,   4,   7,   4,  1>> >>

SOBEL_3_X == << << -1,  -3,  -3, 0,  3,  3,  1>>,
               << -4, -11, -13, 0, 13, 11,  4>>,
               << -9, -26, -30, 0, 30, 26,  9>>,
               <<-13, -34, -40, 0, 40, 34, 13>>,
               << -9, -26, -30, 0, 30, 26,  9>>,
               << -4, -11, -13, 0, 13, 11,  4>>,
               << -1,  -3,  -3, 0,  3,  3,  1>> >>

SOBEL_3_Y == << <<-1,  -4,  -9, -13,  -9,  -4, -1>>,
               <<-3, -11, -26, -34, -26, -11, -3>>,
               <<-3, -13, -30, -40, -30, -13, -3>>,
               << 0,   0,   0,   0,   0,   0,  0>>,
               << 3,  13,  30,  40,  30,  13,  3>>,
               << 3,  11,  26,  34,  26,  11,  3>>,
               << 1,   4,   9,  13,   9,   4,  1>> >>

\* The if/else chain on num: the kernel pair, or <<>> for the early return.
select_matrices(num) ==
    IF num = 1 THEN <<SOBEL_1_X, SOBEL_1_Y>>
    ELSE IF num = 2 THEN <<SOBEL_2_X, SOBEL_2_Y>>
    ELSE IF num = 3 THEN <<SOBEL_3_X, SOBEL_3_Y>>
    ELSE <<>>

\* ------------------------------------------------------ gradient magnitude

Abs(x) == IF x < 0 THEN -x ELSE x

\* The r in lo..hi-1 with r * r <= n < (r + 1) * (r + 1), by bisection.
RECURSIVE Bisect(_, _, _)
Bisect(lo, hi, n) ==
    IF hi - lo <= 1 THEN lo
    ELSE LET mid == (lo + hi) \div 2 IN
         IF mid * mid <= n THEN Bisect(mid, hi, n) ELSE Bisect(lo, mid, n)

\* The integer part of the square root of n, for 0 <= n < 256 * 256.
FloorSqrt(n) == Bisect(0, 256, n)

\* Mutant: the magnitude is rounded to the nearest integer before the cast.
magnitude_rounded(sum_x, sum_y) ==
    IF Abs(sum_x) >= 256 \/ Abs(sum_y) >= 256 THEN 255
    ELSE LET n == sum_x * sum_x + sum_y * sum_y IN
         IF n >= 256 * 256 THEN 255
         ELSE LET r == FloorSqrt(n) IN as_u8(IF n > r * r + r THEN r + 1 ELSE r)

\* `(sum_x * sum_x + sum_y * sum_y).sqrt() as u8`: the square root's
\* fraction is dropped by the cast, which saturates at 255.  A root of 256 or
\* more is decided from the sums, before squaring: the squares of the 5x5 and
\* 7x7 sums exceed TLC's 32-bit integers.
magnitude_as_u8(sum_x, sum_y) ==
    IF Abs(sum_x) >= 256 \/ Abs(sum_y) >= 256 THEN 255
    ELSE LET n == sum_x * sum_x + sum_y * sum_y IN
         IF n >= 256 * 256 THEN 255 ELSE as_u8(FloorSqrt(n))

\* ------------------------------------------------------------------- edge

\* Mutant: the subtractions are evaluated before the tests on row and column.
edge_border_eager(original, margin, row, column) ==
    IF original.height < margin + 1 \/ original.width < margin + 1 THEN "panic"
    ELSE IF \/ row < margin
            \/ row > original.height - (margin + 1)
            \/ column < margin
            \/ column > original.width - (margin + 1)
    THEN "skip"
    ELSE "go"

\* Mutant: the far edges are tested with >=, one row and column too early.
edge_border_inclusive(original, margin, row, column) ==
    IF row < margin THEN "skip"
    ELSE IF original.height < margin + 1 THEN "panic"
    ELSE IF row >= original.height - (margin + 1) THEN "skip"
    ELSE IF column < margin THEN "skip"
    ELSE IF original.width < margin + 1 THEN "panic"
    ELSE IF column >= original.width - (margin + 1) THEN "skip"
    ELSE "go"

\* The border test of edge's loop, evaluated left to right with `||`
\* short-circuit: "skip" (continue), "go", or "panic" when an unsigned
\* subtraction that is evaluated goes below zero.
edge_border(original, margin, row, column) ==
    IF row < margin THEN "skip"
    ELSE IF original.height < margin + 1 THEN "panic"
    ELSE IF row > original.height - (margin + 1) THEN "skip"
    ELSE IF column < margin THEN "skip"
    ELSE IF original.width < margin + 1 THEN "panic"
    ELSE IF column > original.width - (margin + 1) THEN "skip"
    ELSE "go"

\* The two nested loops over j and k, flattened: t counts the iterations,
\* j = t / dim - margin, k = t % dim - margin.  acc = [sum_x, sum_y, ok,
\* terms, touched].
RECURSIVE edge_sums(_, _, _, _, _, _, _, _)
edge_sums(acc, original, matrix_x, matrix_y, i, row, column, t) ==
    LET dim    == Len(matrix_x)
        margin == dim \div 2
        j      == (t \div dim) - margin
        k      == (t % dim) - margin
    IN  IF t >= dim * dim \/ ~acc.ok THEN acc
        ELSE IF row + j < 0 \/ column + k < 0
        THEN [acc EXCEPT !.ok = FALSE]
        ELSE LET calc_index == row_col_to_index(original, row + j, column + k) IN
             IF ~InBounds(original.pixels, calc_index)
             THEN [acc EXCEPT !.ok = FALSE, !.touched = @ \cup {calc_index}]
             ELSE edge_sums(
                    [acc EXCEPT
                       !.sum_x = @ + matrix_x[j + margin + 1][k + margin + 1]
                                     * At(original.pixels, calc_index).red,
                       !.sum_y = @ + matrix_y[j + margin + 1][k + margin + 1]
                                     * At(original.pixels, calc_index).red,
                       !.terms = @ \cup {<<i, calc_index, j + margin, k + margin>>},
                       !.touched = @ \cup {calc_index}],
                    original, matrix_x, matrix_y, i, row, column, t + 1)

\* One iteration of edge's second loop.
edge_body(st, original, matrix_x, matrix_y, i) ==
    LET margin == Len(matrix_x) \div 2
        rc     == index_to_row_col(original, i)
        row    == rc[1]
        column == rc[2]
        border == edge_border(original, margin, row, column)
    IN  IF border = "skip" THEN st
        ELSE IF border = "panic" THEN Panic(st, {})
        ELSE LET acc == edge_sums([sum_x |-> 0, sum_y |-> 0, ok |-> TRUE,
                                   terms |-> {}, touched |-> {}],
                                  original, matrix_x, matrix_y, i, row, column, 0)
             IN  IF ~acc.ok THEN Panic(st, acc.touched)
                 ELSE [st EXCEPT
                         !.pixels  = Put(@, i, set_gray(At(st.pixels, i),
                                                 magnitude_as_u8(acc.sum_x, acc.sum_y))),
                         !.touched = @ \cup acc.touched \cup {i},
                         !.written = @ \cup {i},
                         !.terms   = @ \cup acc.terms]

RECURSIVE edge_loop(_, _, _, _, _)
edge_loop(st, original, matrix_x, matrix_y, i) ==
    IF i >= Len(original.pixels) \/ ~st.ok THEN st
    ELSE edge_loop(edge_body(st, original, matrix_x, matrix_y, i),
                   original, matrix_x, matrix_y, i + 1)

\* Mutant: the grayscale pass runs before the size code is looked at.
edge_gray_first(img, num) ==
    LET m == select_matrices(num) IN
    IF m = <<>> THEN grayscale_loop(Start(img), 0)
    ELSE edge_loop(grayscale_loop(Start(img), 0), img, m[1], m[2], 0)

\* edge: choose the kernels or return; snapshot; grayscale pass; gradient pass.
edge(img, num) ==
    LET m == select_matrices(num) IN
    IF m = <<>> THEN Start(img)
    ELSE edge_loop(grayscale_loop(Start(img), 0), img, m[1], m[2], 0)

\* --------------------------------------------------------- edge_detection

\* Mutant: the horizontal sum weighs the right-hand neighbour 1, not 2.
edge_detection_body_weight(st, original, i) ==
    LET w   == original.width
        rc  == index_to_row_col(original, i)
        px  == original.pixels
    IN  IF rc[1] = 0 \/ rc[1] = original.height - 1 \/ rc[2] = 0 \/ rc[2] = w - 1
        THEN st
        ELSE LET sum_x ==   At(px, i - w + 1).red - At(px, i - w - 1).red
                          - 2 * At(px, i - 1).red + At(px, i + 1).red
                          - At(px, i + w - 1).red + At(px, i + w + 1).red
                 sum_y == - At(px, i - w - 1).red - 2 * At(px, i - w).red
                          - At(px, i - w + 1).red + At(px, i + w - 1).red
                          + 2 * At(px, i + w).red + At(px, i + w + 1).red
             IN  [st EXCEPT
                    !.pixels  = Put(@, i, set_gray(At(st.pixels, i),
                                                   magnitude_as_u8(sum_x, sum_y))),
                    !.touched = @ \cup {i},
                    !.written = @ \cup {i}]

\* One iteration of edge_detection's second loop.  The index expressions are
\* evaluated left to right in unsigned arithmetic: i - width + 1 is
\* (i - width) + 1.
edge_detection_body(st, original, i) ==
    LET w      == original.width
        rc     == index_to_row_col(original, i)
        row    == rc[1]
        column == rc[2]
        px     == original.pixels
        reads  == {i - w + 1, i - w - 1, i - 1, i + 1, i + w - 1, i + w + 1, i - w, i + w}
    IN  IF original.height < 1 \/ w < 1 THEN Panic(st, {})
        ELSE IF row = 0 \/ row = original.height - 1 \/ column = 0 \/ column = w - 1
        THEN st
        ELSE IF i < w \/ i - w < 1 \/ \E r \in reads : ~InBounds(px, r)
        THEN Panic(st, reads)
        ELSE LET sum_x ==   At(px, i - w + 1).red
                          - At(px, i - w - 1).red
                          - 2 * At(px, i - 1).red
                          + 2 * At(px, i + 1).red
                          - At(px, i + w - 1).red
                          + At(px, i + w + 1).red
                 sum_y == - At(px, i - w - 1).red
                          - 2 * At(px, i - w).red
                          - At(px, i - w + 1).red
                          + At(px, i + w - 1).red
                          + 2 * At(px, i + w).red
                          + At(px, i + w + 1).red
             IN  [st EXCEPT
                    !.pixels  = Put(@, i, set_gray(At(st.pixels, i),
                                                   magnitude_as_u8(sum_x, sum_y))),
                    !.touched = @ \cup reads \cup {i},
                    !.written = @ \cup {i}]

RECURSIVE edge_detection_loop(_, _, _)
edge_detection_loop(st, original, i) ==
    IF i >= Len(original.pixels) \/ ~st.ok THEN st
    ELSE edge_detection_loop(edge_detection_body(st, original, i), original, i + 1)

edge_detection(img) == edge_detection_loop(grayscale_loop(Start(img), 0), img, 0)

\* ----------------------------------------------------------------- filter

filter(img, f) ==
    CASE f.kind = "MirrorX"       -> mirror_x(img)
      [] f.kind = "MirrorY"       -> mirror_y(img)
      [] f.kind = "Grayscale"     -> grayscale(img)
      [] f.kind = "Invert"        -> invert(img)
      [] f.kind = "Convolution"   -> convolution(img, f.arg)
      [] f.kind = "EdgeDetection" -> edge_detection(img)
      [] f.kind = "SobelFilter"   -> edge(img, f.arg)

\* ------------------------------------------------------------ the inputs

\* The generated pixel pattern: the three channels differ, the red channel
\* varies gently except at every fourth index, where it jumps, so that
\* gradient magnitudes below and above 255 both occur.
Pattern(i) ==
    rgb(IF i % 4 = 3 THEN (i * 67 + 13) % 256 ELSE 90 + ((i * i + 7 * i) % 29),
        (i * 101 + 53) % 256,
        200 - ((3 * i) % 17))

Generated(w, h) ==
    [width |-> w, height |-> h, pixels |-> [n \in 1..(w * h) |-> Pattern(n - 1)]]

Gray(v) == rgb(v, v, v)

\* The buffers of the source's tests.
TestImages ==
    { [width |-> 2, height |-> 2,
       pixels |-> <<Gray(100), Gray(0), Gray(100), Gray(0)>>],
      [width |-> 3, height |-> 3,
       pixels |-> <<Gray(100), Gray(0), Gray(0), Gray(100), Gray(0), Gray(0),
                    Gray(100), Gray(0), Gray(0)>>],
      [width |-> 2, height |-> 2,
       pixels |-> <<Gray(100), Gray(100), Gray(0), Gray(0)>>],
      [width |-> 3, height |-> 3,
       pixels |-> <<Gray(100), Gray(100), Gray(100), Gray(0), Gray(0), Gray(0),
                    Gray(0), Gray(0), Gray(0)>>],
      [width |-> 3, height |-> 3,
       pixels |-> [n \in 1..9 |-> rgb(100, 150, 200)]],
      [width |-> 3, height |-> 3,
       pixels |-> <<Gray(119), Gray(80), Gray(122), Gray(177), Gray(154), Gray(212),
                    Gray(89), Gray(25), Gray(152)>>] }

\* The shapes of the generated images: the near-square ones, and the strips
\* no wider (or no higher) than the margin of the largest kernel.
Shapes ==
    LET thin == Len(SOBEL_3_X) \div 2 IN
    {s \in (1..MaxDim) \X (1..MaxDim) :
        \/ s[1] <= thin
        \/ s[2] <= thin
        \/ s[1] - s[2] \in -1..1}

Images ==
    TestImages \cup {Generated(s[1], s[2]) : s \in Shapes}

IdentityKernel == << <<0, 0, 0>>, <<0, 1, 0>>, <<0, 0, 0>> >>

ZeroKernel == << <<0, 0, 0>>, <<0, 0, 0>>, <<0, 0, 0>> >>

SharpenKernel == << <<0, -1, 0>>, <<-1, 5, -1>>, <<0, -1, 0>> >>

Kernels == {IdentityKernel, ZeroKernel, SharpenKernel}

\* Size codes handed to SobelFilter: the three known ones and their neighbours.
SobelCodes == 0..4

NoFilter == [kind |-> "None", arg |-> 0]

\* ------------------------------------------------------------ the machine

Init ==
    /\ image \in Images
    /\ pre = image
    /\ op = NoFilter
    /\ prevOp = NoFilter
    /\ run = Idle
    /\ calls = 0

\* image.filter(f): the whole call.  A panicked program makes no further call.
Call(f) ==
    /\ run.ok
    /\ LET st == filter(image, f) IN
       /\ image' = [width |-> st.width, height |-> st.height, pixels |-> st.pixels]
       /\ run' = [ok |-> st.ok, touched |-> st.touched, copies |-> st.copies,
                  written |-> st.written, terms |-> st.terms]
    /\ pre' = image
    /\ op' = f
    /\ prevOp' = op
    /\ calls' = calls + 1

FilterMirrorX ==
    /\ calls < MaxCalls
    /\ Call([kind |-> "MirrorX", arg |-> 0])

FilterMirrorY ==
    /\ calls < MaxCalls
    /\ Call([kind |-> "MirrorY", arg |-> 0])

FilterGrayscale ==
    /\ calls < MaxCalls
    /\ Call([kind |-> "Grayscale", arg |-> 0])

FilterInvert ==
    /\ calls < MaxCalls
    /\ Call([kind |-> "Invert", arg |-> 0])

FilterConvolution ==
    /\ calls < MaxCalls
    /\ \E matrix \in Kernels : Call([kind |-> "Convolution", arg |-> matrix])

FilterEdgeDetection ==
    /\ calls < MaxCalls
    /\ Call([kind |-> "EdgeDetection", arg |-> 0])

FilterSobelFilter ==
    /\ calls < MaxCalls
    /\ \E num \in SobelCodes : Call([kind |-> "SobelFilter", arg |-> num])

Next ==
    \/ FilterMirrorX
    \/ FilterMirrorY
    \/ FilterGrayscale
    \/ FilterInvert
    \/ FilterConvolution
    \/ FilterEdgeDetection
    \/ FilterSobelFilter

Spec == Init /\ [][Next]_vars

\* Behaviours that call only the mirror filters, several times in a row.
MirrorXAgain ==
    /\ calls < MaxMirrorCalls
    /\ Call([kind |-> "MirrorX", arg |-> 0])

MirrorYAgain ==
    /\ calls < MaxMirrorCalls
    /\ Call([kind |-> "MirrorY", arg |-> 0])

MirrorNext ==
    \/ MirrorXAgain
    \/ MirrorYAgain

MirrorSpec == Init /\ [][MirrorNext]_vars

\* ====================================================================
\* Properties.  `pre` is the image before the last call, `image` the image
\* after it, `op` the selector of the last call, `run` the record of what
\* the call did.
\* ====================================================================

Indices == 0..(Len(pre.pixels) - 1)

RowOf(i) == i \div pre.width

ColOf(i) == i % pre.width

\* The pixel of img at (row, col), row-major.
PixelAt(img, row, col) == img.pixels[row * img.width + col + 1]

Rows == 0..(pre.height - 1)

Cols == 0..(pre.width - 1)

\* Inside the border of thickness m on every edge.
Inside(m, i) ==
    /\ m <= RowOf(i) /\ RowOf(i) <= pre.height - 1 - m
    /\ m <= ColOf(i) /\ ColOf(i) <= pre.width - 1 - m

NonGray(p) == p.red # p.green \/ p.green # p.blue

\* ------------------------------------------------------------------ C1

\* The evaluator applied to the three channel neighbourhoods of img at i.
Convolved(img, i, kernel) ==
    rgb(apply_convolution(Neighbourhood(img, i, "red"), kernel),
        apply_convolution(Neighbourhood(img, i, "green"), kernel),
        apply_convolution(Neighbourhood(img, i, "blue"), kernel))

\* C1: after filter(Convolution(kernel)) every border pixel (row 0 or
\* height-1, col 0 or width-1) equals its pre-call value and every interior
\* pixel equals the evaluator applied, per channel, to its 3x3 neighbourhood
\* in the pre-call image; the identity kernel leaves the buffer unchanged and
\* the zero kernel sets exactly the interior pixels to (0,0,0).
C1_Convolution ==
    op.kind = "Convolution" =>
        /\ \A i \in Indices :
              IF Inside(1, i)
              THEN At(image.pixels, i) = Convolved(pre, i, op.arg)
              ELSE At(image.pixels, i) = At(pre.pixels, i)
        /\ op.arg = IdentityKernel => image.pixels = pre.pixels
        /\ op.arg = ZeroKernel =>
              \A i \in Indices :
                 At(image.pixels, i) = IF Inside(1, i) THEN rgb(0, 0, 0)
                                       ELSE At(pre.pixels, i)

\* A convolution that rewrote two horizontally adjacent interior pixels: the
\* second one's neighbourhood held a pixel the pass had already rewritten.
C1_Witness ==
    /\ op.kind = "Convolution"
    /\ op.arg = SharpenKernel
    /\ \E i \in Indices :
          /\ Inside(1, i) /\ Inside(1, i + 1)
          /\ At(image.pixels, i) # At(pre.pixels, i)
          /\ At(image.pixels, i + 1) # At(pre.pixels, i + 1)

\* ------------------------------------------------------------------ C2

\* C2: filter(SobelFilter(code)) with a code other than 1, 2, 3 leaves every
\* pixel equal to its pre-call value: nothing is read, converted or written.
C2_UnknownCodeNoOp ==
    (op.kind = "SobelFilter" /\ op.arg \notin {1, 2, 3}) =>
        /\ image = pre
        /\ run.touched = {}
        /\ run.written = {}

\* An unknown code met a buffer that the grayscale pass would have changed.
C2_Witness ==
    /\ op.kind = "SobelFilter"
    /\ op.arg = 4
    /\ \E i \in Indices : NonGray(At(pre.pixels, i))

\* ------------------------------------------------------------------ C3

\* The sum over the (2m+1) x (2m+1) neighbourhood of i of kernel weight
\* times red channel, terms t..(2m+1)^2 - 1 (row by row).
RECURSIVE KernelSum(_, _, _, _)
KernelSum(kernel, img, i, t) ==
    LET dim == Len(kernel)
        m   == dim \div 2
        a   == t \div dim
        b   == t % dim
    IN  IF t >= dim * dim THEN 0
        ELSE kernel[a + 1][b + 1]
               * PixelAt(img, (i \div img.width) + a - m, (i % img.width) + b - m).red
             + KernelSum(kernel, img, i, t + 1)

\* The kernel pair and margin a gradient call uses.
KernelsOf(f) == IF f.kind = "EdgeDetection" THEN <<SOBEL_1_X, SOBEL_1_Y>>
                ELSE select_matrices(f.arg)

MarginOf(f) == Len(KernelsOf(f)[1]) \div 2

IsGradientCall(f) ==
    f.kind = "EdgeDetection" \/ (f.kind = "SobelFilter" /\ f.arg \in {1, 2, 3})

\* r = min(255, floor(sqrt(sx^2 + sy^2))).  A sum of 256 or more in absolute
\* value alone puts the root above 255.
IsFloorMagnitude(r, sx, sy) ==
    IF Abs(sx) >= 256 \/ Abs(sy) >= 256 THEN r = 255
    ELSE LET n == sx * sx + sy * sy IN
         \/ r = 255 /\ n >= 255 * 255
         \/ r \in 0..254 /\ r * r <= n /\ n < (r + 1) * (r + 1)

\* r = min(255, round(sqrt(sx^2 + sy^2))): round(sqrt(n)) = r exactly when
\* (2r - 1)^2 <= 4n < (2r + 1)^2.
IsRoundedMagnitude(r, sx, sy) ==
    IF Abs(sx) >= 256 \/ Abs(sy) >= 256 THEN r = 255
    ELSE LET n == sx * sx + sy * sy IN
         \/ r = 255 /\ 4 * n >= (2 * 255 - 1) * (2 * 255 - 1)
         \/ r = 0 /\ n = 0
         \/ r \in 1..254 /\ (2 * r - 1) * (2 * r - 1) <= 4 * n
                         /\ 4 * n < (2 * r + 1) * (2 * r + 1)

\* Pixel i is gray, and its value and the kernel sums over the pre-call red
\* channel satisfy Rel.
GradientPixel(Rel(_, _, _), i) ==
    LET p == At(image.pixels, i)
        k == KernelsOf(op)
    IN  /\ ~NonGray(p)
        /\ Rel(p.red, KernelSum(k[1], pre, i, 0), KernelSum(k[2], pre, i, 0))

\* C3 as claimed: EdgeDetection and SobelFilter(1..3) set each interior
\* pixel's gray value to min(255, round(sqrt(sum_x^2 + sum_y^2))), the sums
\* taken over the red channel of the pre-call snapshot.
C3_RoundedMagnitude ==
    IsGradientCall(op) =>
        \A i \in Indices : Inside(MarginOf(op), i) => GradientPixel(IsRoundedMagnitude, i)

\* C3 as amended: EdgeDetection and SobelFilter(1..3) set each interior
\* pixel's gray value to min(255, floor(sqrt(sum_x^2 + sum_y^2))): the
\* magnitude's fraction is dropped, not rounded to nearest, and the result is
\* clamped (not wrapped) to 255; the sums are taken over the red channel of
\* the pre-call snapshot.
C3_FloorMagnitude ==
    IsGradientCall(op) =>
        \A i \in Indices : Inside(MarginOf(op), i) => GradientPixel(IsFloorMagnitude, i)

\* A gradient call on a coloured buffer wrote one magnitude below 255 whose
\* rounding differs from its truncation, and one clamped magnitude.
C3_Witness ==
    /\ IsGradientCall(op)
    /\ \E i \in Indices : NonGray(At(pre.pixels, i))
    /\ \E i \in Indices :
          /\ Inside(MarginOf(op), i)
          /\ At(image.pixels, i).red < 255
          /\ ~GradientPixel(IsRoundedMagnitude, i)
    /\ \E i \in Indices :
          /\ Inside(MarginOf(op), i)
          /\ Abs(KernelSum(KernelsOf(op)[1], pre, i, 0)) >= 256
          /\ At(image.pixels, i).red = 255

\* ------------------------------------------------------------------ C4

SobelTestImage ==
    [width |-> 3, height |-> 3,
     pixels |-> <<Gray(119), Gray(80), Gray(122), Gray(177), Gray(154), Gray(212),
                  Gray(89), Gray(25), Gray(152)>>]

\* C4: filter(EdgeDetection) and filter(SobelFilter(1)) leave identical
\* buffers on equal inputs, and on the 3x3 input with channel values
\* [119,80,122,177,154,212,89,25,152] both set the red channel of the centre
\* pixel (index 4) to 174.
C4_FixedAndParametricAgree ==
    /\ op.kind = "EdgeDetection" => image.pixels = edge(pre, 1).pixels
    /\ (op.kind = "SobelFilter" /\ op.arg = 1) => image.pixels = edge_detection(pre).pixels
    /\ (pre = SobelTestImage /\ (op.kind = "EdgeDetection"
                                 \/ (op.kind = "SobelFilter" /\ op.arg = 1)))
          => At(image.pixels, 4).red = 174

\* The fixed path ran on a coloured buffer and wrote magnitudes that are not
\* all the same.
C4_Witness ==
    /\ op.kind = "EdgeDetection"
    /\ \E i \in Indices : NonGray(At(pre.pixels, i))
    /\ \E i, j \in run.written : At(image.pixels, i) # At(image.pixels, j)

\* ------------------------------------------------------------------ C5

\* C5: after filter(MirrorX), for every row and every col < W/2 the pixel at
\* (row, W-1-col) equals the pre-call pixel at (row, col) and the pixel at
\* (row, col) keeps its pre-call value; for odd W the centre column keeps its
\* pre-call value.  The 2x2 input [100, 0, 100, 0] becomes four pixels 100.
C5_MirrorX ==
    op.kind = "MirrorX" =>
        LET W == pre.width IN
        /\ \A row \in Rows : \A col \in Cols :
              col < W \div 2 =>
                 /\ PixelAt(image, row, W - 1 - col) = PixelAt(pre, row, col)
                 /\ PixelAt(image, row, col) = PixelAt(pre, row, col)
        /\ W % 2 = 1 =>
              \A row \in Rows : PixelAt(image, row, W \div 2) = PixelAt(pre, row, W \div 2)
        /\ pre.pixels = <<Gray(100), Gray(0), Gray(100), Gray(0)>> /\ W = 2
              => image.pixels = <<Gray(100), Gray(100), Gray(100), Gray(100)>>

\* MirrorX changed a buffer of odd width at least 3.
C5_Witness ==
    /\ op.kind = "MirrorX"
    /\ pre.width % 2 = 1
    /\ pre.width >= 3
    /\ pre.height >= 2
    /\ image.pixels # pre.pixels

\* ------------------------------------------------------------------ C6

\* C6: after filter(MirrorY), for every col and every row < H/2 the pixel at
\* (H-1-row, col) equals the pre-call pixel at (row, col) and the pixel at
\* (row, col) keeps its pre-call value; for odd H the centre row keeps its
\* pre-call value.
C6_MirrorY ==
    op.kind = "MirrorY" =>
        LET H == pre.height IN
        /\ \A row \in Rows : \A col \in Cols :
              row < H \div 2 =>
                 /\ PixelAt(image, H - 1 - row, col) = PixelAt(pre, row, col)
                 /\ PixelAt(image, row, col) = PixelAt(pre, row, col)
        /\ H % 2 = 1 =>
              \A col \in Cols : PixelAt(image, H \div 2, col) = PixelAt(pre, H \div 2, col)

\* MirrorY changed a buffer of odd height at least 3.
C6_Witness ==
    /\ op.kind = "MirrorY"
    /\ pre.height % 2 = 1
    /\ pre.height >= 3
    /\ pre.width >= 2
    /\ image.pixels # pre.pixels

\* ------------------------------------------------------------------ C7

\* C7: every call on a well-formed buffer completes without a panic, every
\* index it reads or writes lies in [0, width*height), and width, height and
\* the buffer length are unchanged.
C7_Total ==
    /\ run.ok
    /\ run.touched \subseteq Indices
    /\ image.width = pre.width
    /\ image.height = pre.height
    /\ Len(image.pixels) = Len(pre.pixels)
    /\ Len(image.pixels) = image.width * image.height
    /\ image.width >= 1
    /\ image.height >= 1

\* The 7x7 kernel was selected on a buffer longer than the kernel but no
\* wider than its margin.
C7_Witness ==
    /\ op.kind = "SobelFilter"
    /\ op.arg = 3
    /\ pre.height >= Len(SOBEL_3_X)
    /\ pre.width <= Len(SOBEL_3_X) \div 2
    /\ run.touched # {}

\* ------------------------------------------------------------------ C8

\* C8: a second filter(MirrorX) right after a first leaves the buffer as the
\* first left it.
C8_MirrorXIdempotent ==
    (op.kind = "MirrorX" /\ prevOp.kind = "MirrorX") => image.pixels = pre.pixels

\* Two MirrorX calls in a row on a buffer whose rows are not uniform.
C8_Witness ==
    /\ op.kind = "MirrorX"
    /\ prevOp.kind = "MirrorX"
    /\ pre.width >= 3
    /\ \E row \in Rows : \E c, d \in Cols : PixelAt(image, row, c) # PixelAt(image, row, d)

\* ------------------------------------------------------------------ C9

\* Along is the coordinate the mirror acts on (ColOf for MirrorX, RowOf for
\* MirrorY) and mid half the extent in that direction.
MirrorPassOrdered(Along(_), mid) ==
    \A k \in 1..Len(run.copies) :
        LET src == run.copies[k][1]
            dst == run.copies[k][2]
        IN  /\ Along(src) < mid
            /\ Along(dst) >= mid
            /\ \A e \in 1..(k - 1) :
                  /\ run.copies[e][1] < src
                  /\ run.copies[e][2] # src
            /\ At(image.pixels, dst) = At(pre.pixels, src)

\* C9: in the one ascending pass of MirrorX (MirrorY) every written index has
\* col >= W/2 (row >= H/2) and every copy source has col < W/2 (row < H/2);
\* no step reads a pixel an earlier step of the pass wrote, and every value
\* copied is a pre-call value.
C9_MirrorNoReadAfterWrite ==
    /\ op.kind = "MirrorX" => MirrorPassOrdered(ColOf, pre.width \div 2)
    /\ op.kind = "MirrorY" => MirrorPassOrdered(RowOf, pre.height \div 2)

\* A MirrorY pass of several copies, after a MirrorX pass.
C9_Witness ==
    /\ op.kind = "MirrorY"
    /\ prevOp.kind = "MirrorX"
    /\ Len(run.copies) >= 4
    /\ image.pixels # pre.pixels

\* ----------------------------------------------------------------- C10

\* C10: filter(SobelFilter(code)), code in {1,2,3}, margin = k/2: a pixel
\* receives a gradient-magnitude write iff margin <= row <= H-1-margin and
\* margin <= col <= W-1-margin; every other pixel ends as grayscale() of its
\* pre-call value; and for each written pixel the sums range over exactly the
\* k*k snapshot pixels at (row+j, col+l), j, l in [-margin, margin], each
\* weighted by kernel[j+margin][l+margin].
C10_SobelFrame ==
    (op.kind = "SobelFilter" /\ op.arg \in {1, 2, 3}) =>
        LET m == MarginOf(op) IN
        /\ run.written = {i \in Indices : Inside(m, i)}
        /\ \A i \in Indices \ run.written :
              At(image.pixels, i) = pixel_grayscale(At(pre.pixels, i))
        /\ run.terms =
              {<<i, (RowOf(i) + j) * pre.width + ColOf(i) + l, j + m, l + m>> :
                  i \in run.written, j \in -m..m, l \in -m..m}

\* The 7x7 kernel wrote some pixels of a coloured buffer and skipped others.
C10_Witness ==
    /\ op.kind = "SobelFilter"
    /\ op.arg = 3
    /\ run.written # {}
    /\ \E i \in Indices \ run.written : At(image.pixels, i) # At(pre.pixels, i)

====
